---- MODULE Spec2Model ----
(***************************************************************************)
(* Audio Track Selector: the Electron main process (temp directory,        *)
(* ffprobe / ffmpeg coordination, IPC handlers) and the renderer's track   *)
(* state (App component).  One action per handler segment between two      *)
(* suspension points (await / child-process event).                        *)
(*                                                                         *)
(* Abstractions: an IPC request and the first synchronous segment of its   *)
(* main-process handler are one step, and a child's close event and the    *)
(* renderer continuation that receives the reply are one step (the IPC     *)
(* channel is ordered); log lines, the status label, mute/volume and gain  *)
(* values are not modelled.  Media times are exact hundredths of a second  *)
(* and the media clocks advance by nondeterministic amounts.  Of a picked  *)
(* file path only whether it equals the current one is kept.  A probe and  *)
(* an extraction are each followed in detail (output parsing) in a         *)
(* behaviour specification of their own.                                    *)
(***************************************************************************)
EXTENDS Integers, Sequences, FiniteSets, TLC

\* ---------------------------------------------------------------- bounds
NumTracks == 2      \* audio tracks of a probed file
MaxOpens == 2       \* handleOpenFile calls
MaxJobs == 2        \* extract-track requests
MaxCleanups == 1    \* cleanup-temp requests
MaxData == 1        \* stdout chunks delivered while requests interleave
MaxChunks == 3      \* stdout chunks of the job whose progress is followed
MaxErrLen == 3      \* characters of stderr text of that job
MaxStreams == 3     \* streams in a prober output

\* ------------------------------------------------------------- constants
MICROS == 1000000   \* request.duration * 1000000
\* media times are in hundredths of a second, the speed in percent, and the
\* rate of an audio element in percent of a percent (speed * correction)
HardDrift == 25     \* abs > 0.25: hard resync
SoftDrift == 8      \* abs > 0.08: soft correction
Slower == 97        \* playbackRate * 0.97
Faster == 103       \* playbackRate * 1.03
Nominal == 100      \* playbackRate * 1, and useState(1)

TrackIds == 0..(NumTracks - 1)
\* request.duration / ProbeResult.duration in seconds; 0 stands for every
\* falsy value (undefined, 0, NaN)
Durations == {0, 2}

NoDir == 0
NoPath == <<>>
\* the exit code of a child that never ran (its "error" event)
NoCode == -1

\* ------------------------------------------------------ progress numbers
\* A progress value is the rational n/d; d = 0 stands for NaN.
NaN == [n |-> 0, d |-> 0]
Zero == [n |-> 0, d |-> 1]
One == [n |-> 1, d |-> 1]

Rat(n, d) == IF n = 0 THEN Zero ELSE [n |-> n, d |-> d]

IsNaN(p) == p.d = 0
InUnit(p) == p.d > 0 /\ 0 <= p.n /\ p.n <= p.d
\* p <= q, false when either is NaN (equal denominators are compared by
\* numerators, which also keeps the products small)
Leq(p, q) ==
  /\ p.d > 0
  /\ q.d > 0
  /\ IF p.d = q.d THEN p.n <= q.n ELSE p.n * q.d <= q.n * p.d

\* ----------------------------------------------------- stdout characters
CR == "CR"
LF == "LF"
EQ == "="
Digits == <<"0", "1", "2", "3", "4", "5", "6", "7", "8", "9">>
IsDigit(c) == \E k \in 1..10 : Digits[k] = c
DigitVal(c) == (CHOOSE k \in 1..10 : Digits[k] = c) - 1
IsSpace(c) == c \in {" ", CR, LF}

KeyOutTimeMs == <<"o", "u", "t", "_", "t", "i", "m", "e", "_", "m", "s">>

\* the value of a missing array element (destructuring past the end)
Undefined == <<"undefined">>

\* String.prototype.split with the separator /\r?\n/
RECURSIVE SplitLinesAcc(_, _, _, _)
SplitLinesAcc(s, i, cur, acc) ==
  IF i > Len(s) THEN Append(acc, cur)
  ELSE IF s[i] = CR /\ i < Len(s) /\ s[i + 1] = LF
    THEN SplitLinesAcc(s, i + 2, <<>>, Append(acc, cur))
  ELSE IF s[i] = LF
    THEN SplitLinesAcc(s, i + 1, <<>>, Append(acc, cur))
  ELSE SplitLinesAcc(s, i + 1, Append(cur, s[i]), acc)

SplitLines(s) == SplitLinesAcc(s, 1, <<>>, <<>>)

\* String.prototype.split("=")
RECURSIVE SplitEqAcc(_, _, _, _)
SplitEqAcc(s, i, cur, acc) ==
  IF i > Len(s) THEN Append(acc, cur)
  ELSE IF s[i] = EQ
    THEN SplitEqAcc(s, i + 1, <<>>, Append(acc, cur))
  ELSE SplitEqAcc(s, i + 1, Append(cur, s[i]), acc)

SplitEq(s) == SplitEqAcc(s, 1, <<>>, <<>>)

\* const [key, value] = line.split("=")
KeyOf(line) == SplitEq(line)[1]
ValueOf(line) == IF Len(SplitEq(line)) >= 2 THEN SplitEq(line)[2] ELSE Undefined

RECURSIVE TrimLeft(_)
TrimLeft(s) ==
  IF s # <<>> /\ IsSpace(Head(s)) THEN TrimLeft(Tail(s)) ELSE s

RECURSIVE TrimRight(_)
TrimRight(s) ==
  IF s # <<>> /\ IsSpace(s[Len(s)]) THEN TrimRight(SubSeq(s, 1, Len(s) - 1)) ELSE s

RECURSIVE DigitsValue(_)
DigitsValue(s) ==
  IF s = <<>> THEN 0
  ELSE 10 * DigitsValue(SubSeq(s, 1, Len(s) - 1)) + DigitVal(s[Len(s)])

AllDigits(s) == s # <<>> /\ \A k \in 1..Len(s) : IsDigit(s[k])

\* Number(value) on the characters used here (decimal integers with an
\* optional sign; anything else is NaN; the empty string is 0).
\* The result is [nan |-> BOOLEAN, v |-> Int].
NumberOf(value) ==
  LET t == TrimRight(TrimLeft(value)) IN
  IF value = Undefined THEN [nan |-> TRUE, v |-> 0]
  ELSE IF t = <<>> THEN [nan |-> FALSE, v |-> 0]
  ELSE IF AllDigits(t) THEN [nan |-> FALSE, v |-> DigitsValue(t)]
  ELSE IF Head(t) = "-" /\ AllDigits(Tail(t))
    THEN [nan |-> FALSE, v |-> 0 - DigitsValue(Tail(t))]
  ELSE IF Head(t) = "+" /\ AllDigits(Tail(t))
    THEN [nan |-> FALSE, v |-> DigitsValue(Tail(t))]
  ELSE [nan |-> TRUE, v |-> 0]

\* Math.min(ms / (request.duration * 1000000), 1), request.duration > 0
ProgressOf(ms, duration) ==
  IF ms.nan THEN NaN
  ELSE IF ms.v >= duration * MICROS THEN One
  ELSE Rat(ms.v, duration * MICROS)

\* variant: the duration is not tested (a division by 0 gives Infinity,
\* which Math.min turns into 1)
LineEventsIgnoringDuration(line, duration) ==
  IF KeyOf(line) = KeyOutTimeMs
    THEN <<IF duration = 0 THEN One
           ELSE ProgressOf(NumberOf(ValueOf(line)), duration)>>
    ELSE <<>>

\* the events one complete line produces (none or one)
LineEvents(line, duration) ==
  IF KeyOf(line) = KeyOutTimeMs /\ duration # 0
    THEN <<ProgressOf(NumberOf(ValueOf(line)), duration)>>
    ELSE <<>>

RECURSIVE LinesEvents(_, _)
LinesEvents(lines, duration) ==
  IF lines = <<>> THEN <<>>
  ELSE LineEvents(Head(lines), duration) \o LinesEvents(Tail(lines), duration)

\* variant: the piece after the last line end is not kept
OnDataDroppingCarry(buffer, chunk, duration) ==
  LET all == SplitLines(chunk)
      complete == SubSeq(all, 1, Len(all) - 1)
  IN [buffer |-> <<>>, events |-> LinesEvents(complete, duration)]

\* the stdout "data" handler: the new carry buffer and the events emitted
OnData(buffer, chunk, duration) ==
  LET all == SplitLines(buffer \o chunk)
      complete == SubSeq(all, 1, Len(all) - 1)
  IN [buffer |-> all[Len(all)], events |-> LinesEvents(complete, duration)]


\* ------------------------------------------------------------------ state
VARIABLES
  tempDir,        \* main: let tempDir (NoDir = null)
  disk,           \* directories that exist under the OS temp root
  nDirs,          \* directories created so far (mkdtemp names are unique)
  rmFailed,       \* directories whose recursive removal failed
  jobs,           \* in-flight extract-track requests, by job id
  nJobs,          \* extract-track requests so far
  ops,            \* in-flight cleanupTempDir / probe-file calls, by id
  nOps,           \* such calls so far
  quit,           \* before-quit has run
  filePath,       \* renderer: filePath state (0 = null)
  probeDuration,  \* renderer: probeResult?.duration (0 = undefined)
  tracks,         \* renderer: tracks state, by audioIndex (empty = [])
  audioNodes,     \* renderer: audioNodesRef, by audioIndex
  isPlaying,      \* renderer: isPlaying state
  videoPaused,    \* renderer: video.paused
  nOpens,         \* handleOpenFile calls so far
  nCleanups,      \* cleanup-temp requests so far
  nData,          \* stdout chunks so far
  session,        \* history: number of times the track list was replaced
  everReady,      \* history: the track has been Ready in this session
  last,           \* history: what the last step delivered to the track list
  probe,          \* the ffprobe child followed through its output
  videoTime,      \* renderer: video.currentTime
  playbackRate    \* renderer: playbackRate state

vars == <<tempDir, disk, nDirs, rmFailed, jobs, nJobs, ops, nOps, quit,
          filePath, probeDuration, tracks, audioNodes, isPlaying,
          videoPaused, nOpens, nCleanups, nData, session,
          everReady, last, probe, videoTime, playbackRate>>

mainVars == <<tempDir, disk, nDirs, rmFailed, jobs, nJobs, ops, nOps, quit>>
rendererVars == <<filePath, probeDuration, tracks, audioNodes, isPlaying,
                  videoPaused, videoTime, playbackRate>>

\* ----------------------------------------------------------- track state
\* the TrackState a probe result is mapped to
FreshTrack ==
  [enabled |-> FALSE, extracting |-> FALSE, progress |-> Zero,
   error |-> FALSE, outputPath |-> NoPath]

\* path.join(outputDir, `track_${audioIndex}.wav`)
OutputPath(dir, audioIndex) == <<dir, audioIndex>>

\* the lifecycle state of section 4.2, read off a TrackState
Lifecycle(t) ==
  IF t.extracting THEN "Extracting"
  ELSE IF t.outputPath # NoPath
    THEN (IF t.enabled THEN "Ready" ELSE "DisabledCached")
  ELSE IF t.error THEN "Failed"
  ELSE "Idle"

\* enabledTracks: tracks.filter(track => track.enabled && track.outputPath)
EnabledOf(list) ==
  {i \in DOMAIN list : list[i].enabled /\ list[i].outputPath # NoPath}

EnabledTracks == EnabledOf(tracks)

\* variant: the cached outputPath is ignored
NeedsExtractionIgnoringCache(t) == TRUE

\* handleEnableTrack: if (!outputPath) { ... extractTrack ... }
NeedsExtraction(t) == t.outputPath = NoPath

\* handleEnableTrack: the first setTracks
ToggleTrack(t, enabled) == [t EXCEPT !.enabled = enabled, !.error = FALSE]

\* handleEnableTrack: setTracks before the extractTrack call
StartTrack(t) == [t EXCEPT !.extracting = TRUE, !.progress = Zero]

\* variant: the progress is left where the last event put it
ResolveTrackKeepingProgress(t, path) ==
  [t EXCEPT !.extracting = FALSE, !.outputPath = path]

\* variant: the result of a track disabled meanwhile is dropped
ResolveTrackIfEnabled(t, path) ==
  IF t.enabled
    THEN [t EXCEPT !.extracting = FALSE, !.progress = One, !.outputPath = path]
    ELSE [t EXCEPT !.extracting = FALSE]

\* handleEnableTrack: setTracks after extractTrack resolved
ResolveTrack(t, path) ==
  [t EXCEPT !.extracting = FALSE, !.progress = One, !.outputPath = path]

\* handleEnableTrack: setTracks in the catch block
RejectTrack(t) == [t EXCEPT !.extracting = FALSE, !.error = TRUE]

\* onExtractProgress listener
ProgressTrack(t, p) == [t EXCEPT !.progress = p]

\* ------------------------------------------------------------ audio nodes
\* handleEnableTrack: create the node unless audioNodesRef has one; a new
\* element is paused at time 0 with the speed of the calling render
EnsureNode(nodes, i, path, speed) ==
  IF i \in DOMAIN nodes THEN nodes
  ELSE [k \in DOMAIN nodes \cup {i} |->
          IF k = i
            THEN [playing |-> FALSE, path |-> path, time |-> 0,
                  rate |-> speed * Nominal]
            ELSE nodes[k]]

\* syncAllAudioToVideo over the enabledTracks of the calling render
SyncAll(nodes, enabled, time) ==
  [k \in DOMAIN nodes |->
     IF k \in enabled THEN [nodes[k] EXCEPT !.time = time] ELSE nodes[k]]

\* playAllEnabled over the enabledTracks of the calling render
PlayAll(nodes, enabled, speed) ==
  [k \in DOMAIN nodes |->
     IF k \in enabled
       THEN [nodes[k] EXCEPT !.playing = TRUE, !.rate = speed * Nominal]
       ELSE nodes[k]]

\* the effect on [playbackRate, enabledTracks]: after a render that changed
\* either, every enabled track's element runs at the selected speed
ApplyRate(nodes, enabled, speed) ==
  [k \in DOMAIN nodes |->
     IF k \in enabled THEN [nodes[k] EXCEPT !.rate = speed * Nominal]
     ELSE nodes[k]]

\* pauseAllEnabled
PauseAll(nodes, enabled) ==
  [k \in DOMAIN nodes |->
     IF k \in enabled THEN [nodes[k] EXCEPT !.playing = FALSE] ELSE nodes[k]]

\* node.element.pause() for one track
PauseNode(nodes, i) ==
  IF i \in DOMAIN nodes THEN [nodes EXCEPT ![i].playing = FALSE] ELSE nodes

\* -------------------------------------------------------------- main side
\* ensureTempDir's test: tempDir is set, return it without creating one
HasTempDir == tempDir # NoDir

\* the job an extract-track request starts; the renderer values are those
\* of the render that issued the call (its closure)
NewJob(i) ==
  [idx |-> i,
   duration |-> probeDuration,
   stage |-> IF HasTempDir THEN "running" ELSE "mkdtemp",
   dir |-> IF HasTempDir THEN tempDir ELSE NoDir,
   buffer |-> <<>>,
   read |-> <<>>,
   stderr |-> <<>>,
   log |-> <<>>,
   chunks |-> 0,
   snapPlaying |-> isPlaying,
   snapEnabled |-> EnabledTracks,
   snapRate |-> playbackRate,
   from |-> Lifecycle(tracks[i]),
   epoch |-> session]

Without(f, k) == [x \in DOMAIN f \ {k} |-> f[x]]
With(f, k, v) == [x \in DOMAIN f \cup {k} |-> IF x = k THEN v ELSE f[x]]

\* history records: kind is "none", "ok" (extractTrack resolved), "fail"
\* (it rejected) or "cached" (an enable served from the cached outputPath);
\* removed: the job's directory was no longer on disk; log: the progress
\* events the job had sent; wasReady: the track had been Ready before;
\* code: the child's exit code; message: the Error a rejection carries;
\* for kind "tick" (a synchronizer tick), drift: the drift of each element
\* the tick visited, as it found it, and ticks: 2 when the step before was
\* a tick as well, else 1
NoMessage == [code |-> 0, text |-> <<>>]

NoLast == [kind |-> "none", job |-> 0, idx |-> 0, path |-> NoPath,
           removed |-> FALSE, log |-> <<>>, wasReady |-> FALSE,
           code |-> 0, message |-> NoMessage, drift |-> <<>>, ticks |-> 0]

\* new Error(`ffmpeg exited with code ${code}. ${stderr.trim()}`)
ExitError(code, stderr) ==
  [code |-> code, text |-> TrimRight(TrimLeft(stderr))]

\* the Error of the child's "error" event (spawn ENOENT, EACCES)
SpawnFailure == [code |-> NoCode, text |-> <<"spawn">>]

ReplyOf(kind, j, path, code, message) ==
  [kind |-> kind, job |-> j, idx |-> jobs[j].idx, path |-> path,
   removed |-> jobs[j].dir \notin disk, log |-> jobs[j].log,
   wasReady |-> everReady[jobs[j].idx], code |-> code, message |-> message,
   drift |-> <<>>, ticks |-> 0]

CachedOf(i) ==
  [kind |-> "cached", job |-> 0, idx |-> i, path |-> tracks[i].outputPath,
   removed |-> FALSE, log |-> <<>>, wasReady |-> everReady[i],
   code |-> 0, message |-> NoMessage, drift |-> <<>>, ticks |-> 0]

\* history: a track that is Ready has been Ready in this session
History ==
  everReady' = [i \in TrackIds |->
                  \/ i \in DOMAIN tracks' /\ Lifecycle(tracks'[i]) = "Ready"
                  \/ session' = session /\ everReady[i]]

\* history: this step delivers nothing to the track list
Quiet == last' = NoLast /\ History

\* ------------------------------------------------------------- runFfprobe
\* a value of the prober's JSON output: absent, a string or a number
Absent == [t |-> "absent", n |-> 0, s |-> <<>>]
JStr(s) == [t |-> "str", n |-> 0, s |-> s]
JNum(n) == [t |-> "num", n |-> n, s |-> <<>>]

\* a field of the ProbeResult: undefined, NaN, a number, or a string
\* handed through
Unset == [t |-> "unset", n |-> 0, s |-> <<>>]
NotANumber == [t |-> "nan", n |-> 0, s |-> <<>>]

\* JavaScript truthiness of a JSON value
Truthy(x) ==
  \/ x.t = "str" /\ x.s # <<>>
  \/ x.t = "num" /\ x.n # 0

\* Number(x) of a JSON value that is present
ToNumber(x) ==
  IF x.t = "num" THEN x
  ELSE IF NumberOf(x.s).nan THEN NotANumber
  ELSE JNum(NumberOf(x.s).v)

\* x ? Number(x) : undefined
NumberField(x) == IF Truthy(x) THEN ToNumber(x) ELSE Unset

\* a property copied as it is (channels: stream.channels)
CopyField(x) == IF x.t = "absent" THEN Unset ELSE x

\* the entry pushed for an audio stream
TrackInfo(stream, audioIndex) ==
  [audioIndex |-> audioIndex,
   streamIndex |-> stream.index,
   channels |-> CopyField(stream.channels),
   sampleRate |-> NumberField(stream.sample_rate),
   bitRate |-> NumberField(stream.bit_rate)]

\* variant: the counter advances on every stream
RECURSIVE AudioTracksByPosition(_, _, _)
AudioTracksByPosition(streams, audioIndex, acc) ==
  IF streams = <<>> THEN acc
  ELSE IF Head(streams).codec_type # "audio"
    THEN AudioTracksByPosition(Tail(streams), audioIndex + 1, acc)
  ELSE AudioTracksByPosition(Tail(streams), audioIndex + 1,
                             Append(acc, TrackInfo(Head(streams), audioIndex)))

\* the loop over parsed.streams: skip what is not audio, number the rest
RECURSIVE AudioTracksFrom(_, _, _)
AudioTracksFrom(streams, audioIndex, acc) ==
  IF streams = <<>> THEN acc
  ELSE IF Head(streams).codec_type # "audio"
    THEN AudioTracksFrom(Tail(streams), audioIndex, acc)
  ELSE AudioTracksFrom(Tail(streams), audioIndex + 1,
                       Append(acc, TrackInfo(Head(streams), audioIndex)))

\* what the prober wrote to stdout, as JSON.parse sees it: "object" (the
\* streams and format collected), "null" (the literal null) or "invalid"
Parses == {"object", "null", "invalid"}

\* new Error(`ffprobe exited with code ${code}. ${errorOutput.trim()}`)
ProbeExitError(code, stderr) ==
  [code |-> code, text |-> TrimRight(TrimLeft(stderr))]

\* the SyntaxError of JSON.parse or the TypeError of reading null.streams
ParseError == [code |-> 0, text |-> <<"parse">>]

NoResult == [kind |-> "none", audioTracks |-> <<>>, duration |-> Unset,
             message |-> NoMessage]

ProbeFailed(message) ==
  [kind |-> "fail", audioTracks |-> <<>>, duration |-> Unset,
   message |-> message]

\* variant: the output is parsed whatever the exit code
RunFfprobeIgnoringExit(code, parse, streams, format, stderr) ==
  IF parse # "object" THEN ProbeFailed(ParseError)
  ELSE [kind |-> "ok",
        audioTracks |-> AudioTracksFrom(streams, 0, <<>>),
        duration |-> NumberField(format),
        message |-> NoMessage]

\* runFfprobe's close handler: the ProbeResult or the rejection
RunFfprobe(code, parse, streams, format, stderr) ==
  IF code # 0 THEN ProbeFailed(ProbeExitError(code, stderr))
  ELSE IF parse # "object" THEN ProbeFailed(ParseError)
  ELSE [kind |-> "ok",
        audioTracks |-> AudioTracksFrom(streams, 0, <<>>),
        duration |-> NumberField(format),
        message |-> NoMessage]

\* the numeric properties a stream may carry: numbers, nothing, text that
\* is no number
Profiles ==
  { [channels |-> JNum(2), sample_rate |-> JStr(<<"4", "8">>),
     bit_rate |-> JStr(<<"9", "6">>)],
    [channels |-> Absent, sample_rate |-> Absent, bit_rate |-> Absent],
    [channels |-> JStr(<<"N", "/", "A">>),
     sample_rate |-> JStr(<<"N", "/", "A">>),
     bit_rate |-> JStr(<<"N", "/", "A">>)] }

\* format.duration (absent also stands for an absent format)
FormatDurations == {Absent, JStr(<<"1", "2">>), JStr(<<"N", "/", "A">>)}

\* the streams that may follow a stream with native index prev: audio with
\* any profile or video, at the next index or after a gap
StreamsAfter(prev) ==
  { [codec_type |-> "audio", index |-> prev + step,
     channels |-> pr.channels, sample_rate |-> pr.sample_rate,
     bit_rate |-> pr.bit_rate] : step \in {1, 2}, pr \in Profiles }
  \cup
  { [codec_type |-> "video", index |-> prev + step,
     channels |-> Absent, sample_rate |-> Absent, bit_rate |-> Absent]
    : step \in {1, 2} }

LastIndex(streams) ==
  IF streams = <<>> THEN -1 ELSE streams[Len(streams)].index

\* the probe in progress: the streams and format on stdout so far, the
\* text on stderr, and once closed the exit code, what stdout parses as
\* and the result
NoProbe == [streams |-> <<>>, format |-> Absent, stderr |-> <<>>,
            code |-> 0, parse |-> "object", result |-> NoResult]

Init ==
  /\ tempDir = NoDir
  /\ disk = {}
  /\ nDirs = 0
  /\ rmFailed = {}
  /\ jobs = <<>>
  /\ nJobs = 0
  /\ ops = <<>>
  /\ nOps = 0
  /\ quit = FALSE
  /\ filePath = 0
  /\ probeDuration = 0
  /\ tracks = <<>>
  /\ audioNodes = <<>>
  /\ isPlaying = FALSE
  /\ videoPaused = TRUE
  /\ nOpens = 0
  /\ nCleanups = 0
  /\ nData = 0
  /\ session = 0
  /\ everReady = [i \in TrackIds |-> FALSE]
  /\ last = NoLast
  /\ probe = NoProbe
  /\ videoTime = 0
  /\ playbackRate = Nominal

\* cleanupTempDir up to its await: nothing to do without a tempDir, else a
\* removal of tempDir is pending (tempDir stays set until it returns)
StartCleanup(kind) ==
  IF HasTempDir
    THEN /\ ops' = With(ops, nOps + 1, [kind |-> kind, stage |-> "rm", dir |-> tempDir])
         /\ nOps' = nOps + 1
    ELSE IF kind = "probe"
      THEN /\ ops' = With(ops, nOps + 1, [kind |-> kind, stage |-> "ffprobe", dir |-> NoDir])
           /\ nOps' = nOps + 1
      ELSE UNCHANGED <<ops, nOps>>

\* handleOpenFile up to `await window.api.probeFile`, and the probe-file
\* handler up to its first await
OpenFile(same) ==
  /\ ~quit
  /\ nOpens < MaxOpens
  /\ same => filePath # 0
  /\ nOpens' = nOpens + 1
  /\ filePath' = 1
  /\ probeDuration' = 0
  /\ tracks' = <<>>
  /\ audioNodes' = <<>>
  /\ isPlaying' = FALSE
  /\ videoPaused' = IF same THEN videoPaused ELSE TRUE
  /\ session' = session + 1
  /\ StartCleanup("probe")
  /\ UNCHANGED <<tempDir, disk, nDirs, rmFailed, jobs, nJobs, quit,
                 nCleanups, nData>>
  /\ videoTime' = IF same THEN videoTime ELSE 0
  /\ UNCHANGED <<probe, playbackRate>>
  /\ Quiet

\* ipcMain.handle("cleanup-temp")
CleanupTemp ==
  /\ ~quit
  /\ nCleanups < MaxCleanups
  /\ nCleanups' = nCleanups + 1
  /\ StartCleanup("cleanup")
  /\ UNCHANGED <<tempDir, disk, nDirs, rmFailed, jobs, nJobs, quit,
                 rendererVars, nOpens, nData, session>>
  /\ UNCHANGED probe
  /\ Quiet

\* app.on("before-quit"): cleanupTempDir up to its await while the app
\* shuts down.  The window and its renderer are gone and no request or
\* child event is handled any more: of the process only the removals in
\* progress are kept (they may still complete before it exits)
BeforeQuit ==
  /\ ~quit
  /\ quit' = TRUE
  /\ ops' = LET pending == {c \in DOMAIN ops : ops[c].stage = "rm"}
                ids == pending \cup (IF HasTempDir THEN {nOps + 1} ELSE {})
            IN [c \in ids |->
                  [kind |-> "quit", stage |-> "rm",
                   dir |-> IF c \in pending THEN ops[c].dir ELSE tempDir]]
  /\ nOps' = nOps + 1
  /\ jobs' = <<>>
  /\ filePath' = 0
  /\ probeDuration' = 0
  /\ tracks' = <<>>
  /\ audioNodes' = <<>>
  /\ isPlaying' = FALSE
  /\ videoPaused' = TRUE
  /\ session' = session + 1
  /\ UNCHANGED <<tempDir, disk, nDirs, rmFailed, nJobs, nOpens, nCleanups,
                 nData>>
  /\ videoTime' = 0
  /\ playbackRate' = Nominal
  /\ UNCHANGED probe
  /\ Quiet

\* variant: an error of fs.rm is not caught: it is not logged, leaves
\* tempDir as it is and ends the request
RmDonePropagating(c, ok) ==
  /\ c \in DOMAIN ops
  /\ ops[c].stage = "rm"
  /\ disk' = IF ok THEN disk \ {ops[c].dir} ELSE disk
  /\ rmFailed' = IF ~ok /\ ops[c].dir \in disk
                   THEN rmFailed \cup {ops[c].dir} ELSE rmFailed
  /\ tempDir' = IF ok THEN NoDir ELSE tempDir
  /\ ops' = IF ops[c].kind = "probe" /\ ok
              THEN [ops EXCEPT ![c].stage = "ffprobe"]
              ELSE Without(ops, c)
  /\ UNCHANGED <<nDirs, jobs, nJobs, nOps, quit, rendererVars, nOpens,
                 nCleanups, nData, session>>
  /\ UNCHANGED probe
  /\ Quiet

\* cleanupTempDir after `await fs.rm`: the removal succeeded or threw (and
\* was logged); tempDir = null either way; probe-file goes on to runFfprobe
RmDone(c, ok) ==
  /\ c \in DOMAIN ops
  /\ ops[c].stage = "rm"
  /\ disk' = IF ok THEN disk \ {ops[c].dir} ELSE disk
  /\ rmFailed' = IF ~ok /\ ops[c].dir \in disk
                   THEN rmFailed \cup {ops[c].dir} ELSE rmFailed
  /\ tempDir' = NoDir
  /\ ops' = IF ops[c].kind = "probe"
              THEN [ops EXCEPT ![c].stage = "ffprobe"]
              ELSE Without(ops, c)
  /\ UNCHANGED <<nDirs, jobs, nJobs, nOps, quit, rendererVars, nOpens,
                 nCleanups, nData, session>>
  /\ UNCHANGED probe
  /\ Quiet

\* runFfprobe's close handler and handleOpenFile's continuation: a
\* ProbeResult (exit 0, parseable) or a rejection
ProbeClose(c, ok, duration) ==
  /\ ~quit
  /\ c \in DOMAIN ops
  /\ ops[c].stage = "ffprobe"
  /\ ops' = Without(ops, c)
  /\ IF ok
       THEN /\ probeDuration' = duration
            /\ tracks' = [i \in TrackIds |-> FreshTrack]
            /\ session' = session + 1
       ELSE UNCHANGED <<probeDuration, tracks, session>>
  /\ UNCHANGED <<tempDir, disk, nDirs, rmFailed, jobs, nJobs, nOps, quit,
                 filePath, audioNodes, isPlaying, videoPaused, nOpens,
                 nCleanups, nData>>
  /\ UNCHANGED <<probe, videoTime, playbackRate>>
  /\ Quiet


\* --------------------------------------------------- one probe, in detail
\* what the prober may write to stderr
ProbeErrChunks == { <<"No such file", LF>>, <<" ">> }

\* runFfprobe's stdout handler: the output grows (by one stream entry)
ProbeStdout(stream) ==
  /\ ~quit
  /\ \E c \in DOMAIN ops : ops[c].stage = "ffprobe"
  /\ probe.result.kind = "none"
  /\ Len(probe.streams) < MaxStreams
  /\ stream \in StreamsAfter(LastIndex(probe.streams))
  /\ probe' = [probe EXCEPT !.streams = Append(@, stream)]
  /\ UNCHANGED <<mainVars, rendererVars, nOpens, nCleanups, nData, session>>
  /\ Quiet

\* runFfprobe's stderr handler
ProbeStderr(text) ==
  /\ ~quit
  /\ \E c \in DOMAIN ops : ops[c].stage = "ffprobe"
  /\ probe.result.kind = "none"
  /\ probe.stderr = <<>>
  /\ probe' = [probe EXCEPT !.stderr = text]
  /\ UNCHANGED <<mainVars, rendererVars, nOpens, nCleanups, nData, session>>
  /\ Quiet

\* handleOpenFile after `await window.api.probeFile`: the track list of a
\* ProbeResult, nothing after a rejection
ProbeDelivered(result) ==
  IF result.kind = "ok"
    THEN /\ probeDuration' = IF result.duration.t = "num"
                               THEN result.duration.n ELSE 0
         /\ tracks' = [i \in 0..(Len(result.audioTracks) - 1) |-> FreshTrack]
         /\ session' = session + 1
    ELSE UNCHANGED <<probeDuration, tracks, session>>

\* runFfprobe's close handler on the output collected, and handleOpenFile's
\* continuation
ProbeFileClose(c, code, parse) ==
  /\ ~quit
  /\ c \in DOMAIN ops
  /\ ops[c].stage = "ffprobe"
  /\ probe.result.kind = "none"
  /\ ops' = Without(ops, c)
  /\ LET result == RunFfprobe(code, parse, probe.streams, probe.format,
                              probe.stderr)
     IN /\ probe' = [probe EXCEPT !.code = code, !.parse = parse,
                                  !.result = result]
        /\ ProbeDelivered(result)
  /\ UNCHANGED <<tempDir, disk, nDirs, rmFailed, jobs, nJobs, nOps, quit,
                 filePath, audioNodes, isPlaying, videoPaused, nOpens,
                 nCleanups, nData, videoTime, playbackRate>>
  /\ Quiet

\* runFfprobe's error handler: the prober could not be spawned
ProbeFileError(c) ==
  /\ ~quit
  /\ c \in DOMAIN ops
  /\ ops[c].stage = "ffprobe"
  /\ probe.result.kind = "none"
  /\ probe.streams = <<>>
  /\ probe.stderr = <<>>
  /\ ops' = Without(ops, c)
  /\ probe' = [probe EXCEPT !.code = NoCode,
                            !.result = ProbeFailed(SpawnFailure)]
  /\ UNCHANGED <<tempDir, disk, nDirs, rmFailed, jobs, nJobs, nOps, quit,
                 rendererVars, nOpens, nCleanups, nData, session>>
  /\ Quiet

\* ------------------------------------------------------- encoder output
LineOf(value) == KeyOutTimeMs \o <<EQ>> \o value \o <<LF>>

\* the stdout chunks an encoder may deliver: elapsed times inside, beyond
\* and before the total, a value that is no number, a line cut in two, a
\* CR LF line end and a line with another key
Chunks ==
  { LineOf(<<"5", "0", "0", "0", "0", "0">>),
    LineOf(<<"1", "5", "0", "0", "0", "0", "0">>),
    LineOf(<<"3", "0", "0", "0", "0", "0", "0">>),
    LineOf(<<"-", "5", "0", "0", "0", "0", "0">>),
    LineOf(<<"N", "/", "A">>),
    KeyOutTimeMs \o <<EQ, "1", "5">>,
    <<"0", "0", "0", "0", "0", CR, LF, "s", "p", "e", "e", "d", EQ, "2", "x", LF>> }

\* what an encoder may write to stderr: a diagnostic line, white space
ErrChunks == { <<"Invalid stream", LF>>, <<" ">>, <<"x">> }

\* whole encoder outputs, to be delivered in pieces: two progress lines
\* (the second ended by CR LF) around a line with another key and before
\* an unfinished line; and lines that are no progress lines at all
EncoderOutputs ==
  { LineOf(<<"5", "0", "0", "0", "0", "0">>)
      \o <<"x", EQ, "1", LF>>
      \o KeyOutTimeMs \o <<EQ, "1", "5", "0", "0", "0", "0", "0", CR, LF>>
      \o <<"e", "n">>,
    <<"a", CR, "b", LF, LF>> \o LineOf(<<"N", "/", "A">>) \o KeyOutTimeMs \o <<LF>> }

IsPrefix(p, s) == Len(p) <= Len(s) /\ SubSeq(s, 1, Len(p)) = p

\* the chunks delivered while requests interleave
CoordChunks == { LineOf(<<"5", "0", "0", "0", "0", "0">>) }

\* ------------------------------------------------------ handleEnableTrack
\* handleEnableTrack(i, true): with no outputPath, mark the track
\* extracting and invoke extract-track (whose handler runs ensureTempDir up
\* to its await, or through to spawn when tempDir is set); with an
\* outputPath, attach the node and start playback if playing
Enable(i) ==
  /\ ~quit
  /\ i \in DOMAIN tracks
  /\ ~tracks[i].enabled
  /\ IF NeedsExtraction(tracks[i])
       THEN /\ nJobs < MaxJobs
            /\ tracks' = [tracks EXCEPT ![i] = StartTrack(ToggleTrack(tracks[i], TRUE))]
            /\ jobs' = With(jobs, nJobs + 1, NewJob(i))
            /\ nJobs' = nJobs + 1
            /\ last' = NoLast
            /\ audioNodes' = ApplyRate(audioNodes, EnabledOf(tracks'), playbackRate)
       ELSE /\ tracks' = [tracks EXCEPT ![i] = ToggleTrack(tracks[i], TRUE)]
            /\ last' = CachedOf(i)
            /\ audioNodes' =
                 LET nodes == EnsureNode(audioNodes, i, tracks[i].outputPath,
                                         playbackRate)
                     started ==
                       IF isPlaying
                         THEN PlayAll(SyncAll(nodes, EnabledTracks, videoTime),
                                      EnabledTracks, playbackRate)
                         ELSE nodes
                 IN ApplyRate(started, EnabledOf(tracks'), playbackRate)
            /\ UNCHANGED <<jobs, nJobs>>
  /\ UNCHANGED <<tempDir, disk, nDirs, rmFailed, ops, nOps, quit, filePath,
                 probeDuration, isPlaying, videoPaused, nOpens, nCleanups,
                 nData, session>>
  /\ UNCHANGED <<probe, videoTime, playbackRate>>
  /\ History

\* handleEnableTrack(i, false): clear the flag, pause the node; a job in
\* flight is left alone
Disable(i) ==
  /\ ~quit
  /\ i \in DOMAIN tracks
  /\ tracks[i].enabled
  /\ tracks' = [tracks EXCEPT ![i] = ToggleTrack(tracks[i], FALSE)]
  /\ audioNodes' = ApplyRate(PauseNode(audioNodes, i), EnabledOf(tracks'),
                             playbackRate)
  /\ UNCHANGED <<mainVars, filePath, probeDuration, isPlaying, videoPaused,
                 nOpens, nCleanups, nData, session>>
  /\ UNCHANGED <<probe, videoTime, playbackRate>>
  /\ Quiet

\* ---------------------------------------------------- runFfmpegExtraction
\* ensureTempDir after `await fs.mkdtemp`: record the new directory, then
\* runFfmpegExtraction spawns the encoder writing into it
MkdtempDone(j) ==
  /\ j \in DOMAIN jobs
  /\ jobs[j].stage = "mkdtemp"
  /\ nDirs' = nDirs + 1
  /\ disk' = disk \cup {nDirs + 1}
  /\ tempDir' = nDirs + 1
  /\ jobs' = [jobs EXCEPT ![j].stage = "running", ![j].dir = nDirs + 1]
  /\ UNCHANGED <<rmFailed, nJobs, ops, nOps, quit, rendererVars, nOpens,
                 nCleanups, nData, session>>
  /\ UNCHANGED probe
  /\ Quiet

\* child.stdout.on("data"): split, keep the last piece, send one
\* extract-progress event per out_time_ms line; the renderer's listener
\* stores each in the track with that audioIndex
StdoutData(j, chunk) ==
  /\ ~quit
  /\ j \in DOMAIN jobs
  /\ jobs[j].stage = "running"
  /\ nData' = nData + 1
  /\ LET r == OnData(jobs[j].buffer, chunk, jobs[j].duration)
         i == jobs[j].idx
     IN /\ jobs' = [jobs EXCEPT ![j].buffer = r.buffer,
                                ![j].read = @ \o chunk,
                                ![j].log = @ \o r.events,
                                ![j].chunks = @ + 1]
        /\ tracks' = IF i \in DOMAIN tracks /\ r.events # <<>>
                       THEN [tracks EXCEPT ![i] =
                               ProgressTrack(tracks[i], r.events[Len(r.events)])]
                       ELSE tracks
  /\ audioNodes' = IF tracks' = tracks THEN audioNodes
                    ELSE ApplyRate(audioNodes, EnabledOf(tracks'), playbackRate)
  /\ UNCHANGED <<tempDir, disk, nDirs, rmFailed, nJobs, ops, nOps, quit,
                 filePath, probeDuration, isPlaying, videoPaused,
                 nOpens, nCleanups, session>>
  /\ UNCHANGED <<probe, videoTime, playbackRate>>
  /\ Quiet

\* child.stderr.on("data"): append to the captured text
StderrData(j, text) ==
  /\ ~quit
  /\ j \in DOMAIN jobs
  /\ jobs[j].stage = "running"
  /\ Len(jobs[j].stderr) + Len(text) <= MaxErrLen
  /\ jobs' = [jobs EXCEPT ![j].stderr = @ \o text]
  /\ UNCHANGED <<tempDir, disk, nDirs, rmFailed, nJobs, ops, nOps, quit,
                 rendererVars, nOpens, nCleanups, nData, session>>
  /\ UNCHANGED probe
  /\ Quiet

\* the renderer's continuation after extractTrack resolved with path
Resolved(j, path) ==
  LET i == jobs[j].idx
      nodes == EnsureNode(audioNodes, i, path, jobs[j].snapRate)
      started ==
        IF jobs[j].snapPlaying
          THEN PlayAll(SyncAll(nodes, jobs[j].snapEnabled, videoTime),
                       jobs[j].snapEnabled, jobs[j].snapRate)
          ELSE nodes
  IN /\ tracks' = IF i \in DOMAIN tracks
                    THEN [tracks EXCEPT ![i] = ResolveTrack(tracks[i], path)]
                    ELSE tracks
     /\ audioNodes' = ApplyRate(started, EnabledOf(tracks'), playbackRate)

\* variant: the catch block marks every track of the list as failed
RejectedAllTracks(j) ==
  /\ tracks' = [k \in DOMAIN tracks |-> RejectTrack(tracks[k])]
  /\ audioNodes' = ApplyRate(audioNodes, EnabledOf(tracks'), playbackRate)

\* the renderer's continuation after extractTrack rejected
Rejected(j) ==
  LET i == jobs[j].idx
  IN /\ tracks' = IF i \in DOMAIN tracks
                    THEN [tracks EXCEPT ![i] = RejectTrack(tracks[i])]
                    ELSE tracks
     /\ audioNodes' = ApplyRate(audioNodes, EnabledOf(tracks'), playbackRate)

\* variant: exit code 1 (warnings) is taken for success as well
ExitOkOrWarning(code) == code \in {0, 1}

\* child.on("close"): exit code 0 resolves with outputPath, any other
\* code rejects
ExitOk(code) == code = 0

\* child.on("close") and the reply to the renderer
JobClose(j, code) ==
  /\ ~quit
  /\ j \in DOMAIN jobs
  /\ jobs[j].stage = "running"
  /\ jobs' = Without(jobs, j)
  /\ LET path == OutputPath(jobs[j].dir, jobs[j].idx) IN
     IF ExitOk(code)
       THEN /\ Resolved(j, path)
            /\ last' = ReplyOf("ok", j, path, code, NoMessage)
       ELSE /\ Rejected(j)
            /\ last' = ReplyOf("fail", j, NoPath, code,
                               ExitError(code, jobs[j].stderr))
  /\ UNCHANGED <<tempDir, disk, nDirs, rmFailed, nJobs, ops, nOps, quit,
                 filePath, probeDuration, isPlaying, videoPaused, nOpens,
                 nCleanups, nData, session>>
  /\ UNCHANGED <<probe, videoTime, playbackRate>>
  /\ History

\* variant: the "error" event of a child that ran and wrote output
SpawnErrorAfterOutput(j) ==
  /\ ~quit
  /\ j \in DOMAIN jobs
  /\ jobs[j].stage = "running"
  /\ jobs' = Without(jobs, j)
  /\ Rejected(j)
  /\ last' = ReplyOf("fail", j, NoPath, NoCode, SpawnFailure)
  /\ UNCHANGED <<tempDir, disk, nDirs, rmFailed, nJobs, ops, nOps, quit,
                 filePath, probeDuration, isPlaying, videoPaused, nOpens,
                 nCleanups, nData, session>>
  /\ UNCHANGED <<probe, videoTime, playbackRate>>
  /\ History

\* child.on("error"): the encoder could not be spawned; nothing was read
\* from it
SpawnError(j) ==
  /\ ~quit
  /\ j \in DOMAIN jobs
  /\ jobs[j].stage = "running"
  /\ jobs[j].chunks = 0
  /\ jobs[j].stderr = <<>>
  /\ jobs' = Without(jobs, j)
  /\ Rejected(j)
  /\ last' = ReplyOf("fail", j, NoPath, NoCode, SpawnFailure)
  /\ UNCHANGED <<tempDir, disk, nDirs, rmFailed, nJobs, ops, nOps, quit,
                 filePath, probeDuration, isPlaying, videoPaused, nOpens,
                 nCleanups, nData, session>>
  /\ UNCHANGED <<probe, videoTime, playbackRate>>
  /\ History

\* -------------------------------------------------------------- transport
\* togglePlay: start the video and every enabled decoded track, or pause
\* them
TogglePlay ==
  /\ ~quit
  /\ filePath # 0
  /\ IF videoPaused
       THEN /\ videoPaused' = FALSE
            /\ audioNodes' = PlayAll(SyncAll(audioNodes, EnabledTracks, videoTime),
                                     EnabledTracks, playbackRate)
            /\ isPlaying' = TRUE
       ELSE /\ videoPaused' = TRUE
            /\ audioNodes' = PauseAll(audioNodes, EnabledTracks)
            /\ isPlaying' = FALSE
  /\ UNCHANGED <<mainVars, filePath, probeDuration, tracks, nOpens,
                 nCleanups, nData, session>>
  /\ UNCHANGED <<probe, videoTime, playbackRate>>
  /\ Quiet

\* ----------------------------------------------------------- synchronizer
Abs(x) == IF x < 0 THEN 0 - x ELSE x

\* variant: a hard resync leaves the rate as it was
TickNodeKeepingRate(node, master, speed) ==
  LET drift == node.time - master IN
  IF Abs(drift) > HardDrift THEN [node EXCEPT !.time = master]
  ELSE IF Abs(drift) > SoftDrift
    THEN [node EXCEPT !.rate = speed * (IF drift > 0 THEN Slower ELSE Faster)]
  ELSE [node EXCEPT !.rate = speed * Nominal]

\* variant: a drift of exactly 0.25 s is resynced hard
TickNodeHardAtThreshold(node, master, speed) ==
  LET drift == node.time - master IN
  IF Abs(drift) >= HardDrift
    THEN [node EXCEPT !.time = master, !.rate = speed * Nominal]
  ELSE IF Abs(drift) > SoftDrift
    THEN [node EXCEPT !.rate = speed * (IF drift > 0 THEN Slower ELSE Faster)]
  ELSE [node EXCEPT !.rate = speed * Nominal]

\* variant: a drift of exactly 0.08 s is corrected
TickNodeSoftAtThreshold(node, master, speed) ==
  LET drift == node.time - master IN
  IF Abs(drift) > HardDrift
    THEN [node EXCEPT !.time = master, !.rate = speed * Nominal]
  ELSE IF Abs(drift) >= SoftDrift
    THEN [node EXCEPT !.rate = speed * (IF drift > 0 THEN Slower ELSE Faster)]
  ELSE [node EXCEPT !.rate = speed * Nominal]

\* the interval callback's body for one enabled track's element
TickNode(node, master, speed) ==
  LET drift == node.time - master IN
  IF Abs(drift) > HardDrift
    THEN [node EXCEPT !.time = master, !.rate = speed * Nominal]
  ELSE IF Abs(drift) > SoftDrift
    THEN [node EXCEPT !.rate = speed * (IF drift > 0 THEN Slower ELSE Faster)]
  ELSE [node EXCEPT !.rate = speed * Nominal]

\* the interval callback (every 250 ms while isPlaying): each enabled
\* track that has an element is corrected against the video
Tick ==
  /\ ~quit
  /\ filePath # 0
  /\ isPlaying
  /\ LET visited == EnabledTracks \cap DOMAIN audioNodes IN
     /\ audioNodes' =
          [k \in DOMAIN audioNodes |->
             IF k \in visited
               THEN TickNode(audioNodes[k], videoTime, playbackRate)
               ELSE audioNodes[k]]
     /\ last' = [NoLast EXCEPT
                   !.kind = "tick",
                   !.drift = [k \in visited |-> audioNodes[k].time - videoTime],
                   !.ticks = IF last.kind = "tick" THEN 2 ELSE 1]
  /\ UNCHANGED <<mainVars, filePath, probeDuration, tracks, isPlaying,
                 videoPaused, videoTime, playbackRate, nOpens, nCleanups,
                 nData, session, probe>>
  /\ History

\* positions the video reaches, and how far an element that is playing
\* may then be from it
VideoTimes == {1030, 2060}
Drifts == {-30, -25, -9, -8, 0, 8, 9, 25, 26}

\* the media clocks run: the video reaches a later position and each
\* playing element is somewhere around it; paused elements stay
Advance(time, drift) ==
  /\ ~quit
  /\ ~videoPaused
  /\ time > videoTime
  /\ videoTime' = time
  /\ audioNodes' =
       [k \in DOMAIN audioNodes |->
          IF audioNodes[k].playing
            THEN [audioNodes[k] EXCEPT !.time = time + drift[k]]
            ELSE audioNodes[k]]
  /\ UNCHANGED <<mainVars, filePath, probeDuration, tracks, isPlaying,
                 videoPaused, playbackRate, nOpens, nCleanups, nData,
                 session, probe>>
  /\ Quiet

\* the speeds of the select used here (1x, 2x)
Speeds == {100, 200}

\* the speed select's onChange, and the effect on [playbackRate,
\* enabledTracks] of the render that follows
SetPlaybackRate(speed) ==
  /\ ~quit
  /\ speed # playbackRate
  /\ playbackRate' = speed
  /\ audioNodes' = ApplyRate(audioNodes, EnabledTracks, speed)
  /\ UNCHANGED <<mainVars, filePath, probeDuration, tracks, isPlaying,
                 videoPaused, videoTime, nOpens, nCleanups, nData, session,
                 probe>>
  /\ Quiet

\* positions the scrubber is moved to
SeekTimes == {500}

\* seekTo(time), the scrubber's onChange: pause the enabled tracks, move
\* the video, align the enabled tracks, and start them again if isPlaying
Seek(time) ==
  /\ ~quit
  /\ filePath # 0
  /\ time # videoTime
  /\ videoTime' = time
  /\ audioNodes' =
       LET aligned == SyncAll(PauseAll(audioNodes, EnabledTracks),
                              EnabledTracks, time)
       IN IF isPlaying THEN PlayAll(aligned, EnabledTracks, playbackRate)
          ELSE aligned
  /\ last' = [NoLast EXCEPT !.kind = "seek"]
  /\ UNCHANGED <<mainVars, filePath, probeDuration, tracks, isPlaying,
                 videoPaused, playbackRate, nOpens, nCleanups, nData,
                 session, probe>>
  /\ History

\* ------------------------------------------------------------- behaviours
\* requests, child events and user actions in any order, across file
\* sessions; the transport is left to SpecSession
Next ==
  \/ \E same \in BOOLEAN : OpenFile(same)
  \/ CleanupTemp
  \/ BeforeQuit
  \/ \E c \in DOMAIN ops, ok \in BOOLEAN : RmDone(c, ok)
  \/ \E c \in DOMAIN ops, ok \in BOOLEAN, d \in Durations : ProbeClose(c, ok, d)
  \/ \E i \in TrackIds : Enable(i)
  \/ \E i \in TrackIds : Disable(i)
  \/ \E j \in DOMAIN jobs : MkdtempDone(j)
  \/ \E j \in DOMAIN jobs, chunk \in CoordChunks : nData < MaxData /\ StdoutData(j, chunk)
  \/ \E j \in DOMAIN jobs, code \in {0, 1} : JobClose(j, code)
  \/ \E j \in DOMAIN jobs : SpawnError(j)

Spec == Init /\ [][Next]_vars

\* one file session with the transport: the state after the first file was
\* opened and probed, then enables, disables, play/pause and the encoders
InitSession ==
  /\ tempDir = NoDir
  /\ disk = {}
  /\ nDirs = 0
  /\ rmFailed = {}
  /\ jobs = <<>>
  /\ nJobs = 0
  /\ ops = <<>>
  /\ nOps = 1
  /\ quit = FALSE
  /\ filePath = 1
  /\ probeDuration \in Durations
  /\ tracks = [i \in TrackIds |-> FreshTrack]
  /\ audioNodes = <<>>
  /\ isPlaying = FALSE
  /\ videoPaused = TRUE
  /\ nOpens = 1
  /\ nCleanups = 0
  /\ nData = 0
  /\ session = 2
  /\ everReady = [i \in TrackIds |-> FALSE]
  /\ last = NoLast
  /\ probe = NoProbe
  /\ videoTime = 0
  /\ playbackRate = Nominal

NextSession ==
  \/ \E i \in TrackIds : Enable(i)
  \/ \E i \in TrackIds : Disable(i)
  \/ \E j \in DOMAIN jobs : MkdtempDone(j)
  \/ \E j \in DOMAIN jobs, chunk \in CoordChunks : nData < MaxData /\ StdoutData(j, chunk)
  \/ \E j \in DOMAIN jobs, code \in {0, 1} : JobClose(j, code)
  \/ \E j \in DOMAIN jobs : SpawnError(j)
  \/ TogglePlay

SpecSession == InitSession /\ [][NextSession]_vars

\* one extraction followed through its stdout: the state after track 0 of
\* the first file was enabled and its encoder spawned, then any chunks
InitProgress ==
  /\ tempDir = 1
  /\ disk = {1}
  /\ nDirs = 1
  /\ rmFailed = {}
  /\ \E d \in Durations :
       /\ probeDuration = d
       /\ jobs = With(<<>>, 1,
                   [idx |-> 0, duration |-> d, stage |-> "running", dir |-> 1,
                    buffer |-> <<>>, read |-> <<>>, stderr |-> <<>>,
                    log |-> <<>>,
                    chunks |-> 0,
                    snapPlaying |-> FALSE, snapEnabled |-> {},
                    snapRate |-> Nominal, from |-> "Idle", epoch |-> 2])
  /\ nJobs = 1
  /\ ops = <<>>
  /\ nOps = 1
  /\ quit = FALSE
  /\ filePath = 1
  /\ tracks = [i \in TrackIds |->
                 IF i = 0 THEN StartTrack(ToggleTrack(FreshTrack, TRUE))
                 ELSE FreshTrack]
  /\ audioNodes = <<>>
  /\ isPlaying = FALSE
  /\ videoPaused = TRUE
  /\ nOpens = 1
  /\ nCleanups = 0
  /\ nData = 0
  /\ session = 2
  /\ everReady = [i \in TrackIds |-> FALSE]
  /\ last = NoLast
  /\ probe = NoProbe
  /\ videoTime = 0
  /\ playbackRate = Nominal

NextProgress ==
  \/ \E j \in DOMAIN jobs, chunk \in Chunks :
       jobs[j].chunks < MaxChunks /\ StdoutData(j, chunk)
  \/ \E j \in DOMAIN jobs, text \in ErrChunks : StderrData(j, text)
  \/ \E j \in DOMAIN jobs, code \in {0, 1} : JobClose(j, code)
  \/ \E j \in DOMAIN jobs : SpawnError(j)

SpecProgress == InitProgress /\ [][NextProgress]_vars


\* one probe followed through its output: the state after the first file
\* was picked (probe-file found no tempDir to remove and spawned ffprobe),
\* then the prober's output, its exit and the renderer's continuation
InitProbe ==
  /\ tempDir = NoDir
  /\ disk = {}
  /\ nDirs = 0
  /\ rmFailed = {}
  /\ jobs = <<>>
  /\ nJobs = 0
  /\ ops = With(<<>>, 1, [kind |-> "probe", stage |-> "ffprobe", dir |-> NoDir])
  /\ nOps = 1
  /\ quit = FALSE
  /\ filePath = 1
  /\ probeDuration = 0
  /\ tracks = <<>>
  /\ audioNodes = <<>>
  /\ isPlaying = FALSE
  /\ videoPaused = TRUE
  /\ nOpens = 1
  /\ nCleanups = 0
  /\ nData = 0
  /\ session = 1
  /\ everReady = [i \in TrackIds |-> FALSE]
  /\ last = NoLast
  /\ \E d \in FormatDurations : probe = [NoProbe EXCEPT !.format = d]
  /\ videoTime = 0
  /\ playbackRate = Nominal

NextProbe ==
  \/ \E stream \in StreamsAfter(LastIndex(probe.streams)) : ProbeStdout(stream)
  \/ \E text \in ProbeErrChunks : ProbeStderr(text)
  \/ \E c \in DOMAIN ops, code \in {0, 1}, parse \in Parses :
       ProbeFileClose(c, code, parse)
  \/ \E c \in DOMAIN ops : ProbeFileError(c)

SpecProbe == InitProbe /\ [][NextProbe]_vars


\* playback with the synchronizer: the state after both tracks of the
\* first file were extracted and enabled and play was pressed, then the
\* clocks, the ticks, the speed select, play/pause and the track toggles
InitSync ==
  /\ tempDir = 1
  /\ disk = {1}
  /\ nDirs = 1
  /\ rmFailed = {}
  /\ jobs = <<>>
  /\ nJobs = NumTracks
  /\ ops = <<>>
  /\ nOps = 1
  /\ quit = FALSE
  /\ filePath = 1
  /\ probeDuration = 2
  /\ tracks = [i \in TrackIds |->
                 [ResolveTrack(ToggleTrack(FreshTrack, TRUE), OutputPath(1, i))
                    EXCEPT !.enabled = TRUE]]
  /\ audioNodes = [i \in TrackIds |->
                     [playing |-> TRUE, path |-> OutputPath(1, i), time |-> 0,
                      rate |-> Nominal * Nominal]]
  /\ isPlaying = TRUE
  /\ videoPaused = FALSE
  /\ nOpens = 1
  /\ nCleanups = 0
  /\ nData = 0
  /\ session = 2
  /\ everReady = [i \in TrackIds |-> TRUE]
  /\ last = NoLast
  /\ probe = NoProbe
  /\ videoTime = 0
  /\ playbackRate = Nominal

NextSync ==
  \/ Tick
  \/ \E time \in VideoTimes, drift \in [DOMAIN audioNodes -> Drifts] :
       Advance(time, drift)
  \/ \E speed \in Speeds : SetPlaybackRate(speed)
  \/ TogglePlay
  \/ \E i \in TrackIds : Enable(i)
  \/ \E i \in TrackIds : Disable(i)

SpecSync == InitSync /\ [][NextSync]_vars


\* one file session with the whole transport: the session of SpecSession
\* with the scrubber and the synchronizer
NextSeek ==
  \/ NextSession
  \/ \E time \in SeekTimes : Seek(time)
  \/ Tick

SpecSeek == InitSession /\ [][NextSeek]_vars


\* one extraction whose output arrives cut in every possible way: from the
\* state of InitProgress, each data event delivers the next piece, of any
\* length, of one of the encoder outputs
NextChunks ==
  \/ \E j \in DOMAIN jobs, s \in EncoderOutputs :
       \E n \in 1..Len(s) :
         /\ IsPrefix(jobs[j].read, s)
         /\ Len(jobs[j].read) < n
         /\ StdoutData(j, SubSeq(s, Len(jobs[j].read) + 1, n))
  \/ \E j \in DOMAIN jobs, code \in {0, 1} : JobClose(j, code)

SpecChunks == InitProgress /\ [][NextChunks]_vars


\* ----------------------------------------------------------------- claims
\* C1: at most one extraction job per audioIndex is in flight: two encoder
\* processes started in the same file session never run for the same
\* audioIndex at the same time.
C1_OneJobPerIndex ==
  \A j1, j2 \in DOMAIN jobs :
    (/\ j1 # j2
     /\ jobs[j1].stage = "running" /\ jobs[j2].stage = "running"
     /\ jobs[j1].epoch = jobs[j2].epoch)
    => jobs[j1].idx # jobs[j2].idx

\* C2: once a track has been Ready in the session no step starts another
\* extraction for its audioIndex, and an enable that finds a cached
\* outputPath makes the track Ready in that step without a new job.
C2_NoReExtraction ==
  [][ /\ \A j \in DOMAIN jobs' \ DOMAIN jobs : ~everReady[jobs'[j].idx]
      /\ \A i \in DOMAIN tracks :
           (/\ i \in DOMAIN tracks'
            /\ session' = session
            /\ ~tracks[i].enabled /\ tracks'[i].enabled
            /\ tracks[i].outputPath # NoPath)
           => /\ Lifecycle(tracks'[i]) = "Ready"
              /\ DOMAIN jobs' = DOMAIN jobs ]_vars

\* a track that had been Ready was disabled and enabled again from its
\* cached outputPath, with no job for it in flight
C2_Witness ==
  /\ last.kind = "cached"
  /\ last.wasReady
  /\ Lifecycle(tracks[last.idx]) = "Ready"
  /\ \A j \in DOMAIN jobs : jobs[j].idx # last.idx

\* C3: every progress value sent in an extract-progress event lies in
\* [0,1].
C3_ProgressInUnit ==
  \A j \in DOMAIN jobs :
    \A k \in 1..Len(jobs[j].log) : InUnit(jobs[j].log[k])

\* C4: the progress values one job sends are non-decreasing in emission
\* order (stated for consecutive values that both lie in [0,1]).
C4_ProgressMonotone ==
  \A j \in DOMAIN jobs :
    \A k \in 1..(Len(jobs[j].log) - 1) :
      (InUnit(jobs[j].log[k]) /\ InUnit(jobs[j].log[k + 1]))
      => Leq(jobs[j].log[k], jobs[j].log[k + 1])

\* C5: when an extraction resolves (exit code 0) the progress of its track
\* is exactly 1, whatever the events sent before, and also without a known
\* duration.
C5_FinalProgressOne ==
  (last.kind = "ok" /\ last.idx \in DOMAIN tracks)
  => tracks[last.idx].progress = One

\* an extraction resolved whose last event was below 1
C5_Witness ==
  /\ last.kind = "ok"
  /\ last.idx \in DOMAIN tracks
  /\ last.log # <<>>
  /\ ~Leq(One, last.log[Len(last.log)])
  /\ tracks[last.idx].progress = One

\* C6: the result of a job whose directory was removed by cleanupTempDir
\* while it was in flight is never returned as a decoded path.
C6_OrphanDiscarded == ~(last.kind = "ok" /\ last.removed)

\* C7: every directory ensureTempDir created and that is still on disk is
\* the recorded tempDir or is being removed by cleanupTempDir (a directory
\* whose removal failed apart), and every running job whose directory is
\* on disk writes into the recorded tempDir or one being removed.
C7_OneTempDir ==
  LET tracked(d) ==
        \/ d = tempDir
        \/ \E c \in DOMAIN ops : ops[c].stage = "rm" /\ ops[c].dir = d
  IN /\ \A d \in disk \ rmFailed : tracked(d)
     /\ \A j \in DOMAIN jobs :
          (jobs[j].stage = "running" /\ jobs[j].dir \in disk \ rmFailed)
          => tracked(jobs[j].dir)

\* C8: while the extraction that an enable from Idle or Failed started in
\* this session is in flight, its track is still Extracting (it becomes
\* Ready or Failed only once that extraction completed).
C8_ExtractionCompletesFirst ==
  \A j \in DOMAIN jobs :
    (/\ jobs[j].epoch = session
     /\ jobs[j].from \in {"Idle", "Failed"}
     /\ jobs[j].idx \in DOMAIN tracks)
    => Lifecycle(tracks[jobs[j].idx]) = "Extracting"

\* C9: disabling a track leaves the jobs in flight alone; when the job of a
\* track that is Extracting and disabled resolves, the track stays
\* disabled with the decoded path cached and its audio element is not
\* started; enabling a track whose path was cached that way makes it Ready
\* without a new job.
C9_DisabledWhileExtracting ==
  [][ /\ \A i \in DOMAIN tracks :
           (/\ i \in DOMAIN tracks'
            /\ session' = session
            /\ tracks[i].enabled /\ ~tracks'[i].enabled)
           => jobs' = jobs
      /\ (/\ last'.kind = "ok"
          /\ last'.idx \in DOMAIN tracks
          /\ tracks[last'.idx].extracting
          /\ ~tracks[last'.idx].enabled)
         => /\ Lifecycle(tracks'[last'.idx]) = "DisabledCached"
            /\ tracks'[last'.idx].outputPath = last'.path
            /\ last'.idx \in DOMAIN audioNodes'
            /\ audioNodes'[last'.idx].playing
                 => /\ last'.idx \in DOMAIN audioNodes
                    /\ audioNodes[last'.idx].playing
      /\ (last'.kind = "cached" /\ ~last'.wasReady)
         => /\ Lifecycle(tracks'[last'.idx]) = "Ready"
            /\ jobs' = jobs ]_vars

\* a track never Ready before is enabled from a cached path: its job
\* resolved while it was disabled
C9_Witness ==
  /\ last.kind = "cached"
  /\ ~last.wasReady
  /\ Lifecycle(tracks[last.idx]) = "Ready"
  /\ tracks[last.idx].outputPath = last.path

\* C10: within a session an outputPath, once set, stays set and unchanged.
C10_PathSetOnce ==
  [][ \A i \in DOMAIN tracks :
        (session' = session /\ tracks[i].outputPath # NoPath)
        => /\ i \in DOMAIN tracks'
           /\ tracks'[i].outputPath = tracks[i].outputPath ]_vars

\* C11: a failing extraction affects only its own track: in the step that
\* delivers the failure of the job for audioIndex i, the track state (and
\* with it the decoded path) of every other audioIndex, every audio
\* element's file, position and playing state, and every other job in
\* flight are unchanged, so other Ready tracks stay Ready.
C11_FailureIsLocal ==
  [][ last'.kind = "fail"
      => /\ \A k \in DOMAIN tracks \ {last'.idx} :
              k \in DOMAIN tracks' /\ tracks'[k] = tracks[k]
         /\ DOMAIN audioNodes' = DOMAIN audioNodes
         /\ \A k \in DOMAIN audioNodes :
              /\ audioNodes'[k].playing = audioNodes[k].playing
              /\ audioNodes'[k].path = audioNodes[k].path
              /\ audioNodes'[k].time = audioNodes[k].time
         /\ \A j \in DOMAIN jobs \ {last'.job} :
              j \in DOMAIN jobs' /\ jobs'[j] = jobs[j] ]_vars

\* an extraction failed while another track was Ready and playing
C11_Witness ==
  /\ last.kind = "fail"
  /\ last.idx \in DOMAIN tracks
  /\ Lifecycle(tracks[last.idx]) = "Failed"
  /\ \E k \in DOMAIN tracks \ {last.idx} :
       /\ Lifecycle(tracks[k]) = "Ready"
       /\ k \in DOMAIN audioNodes
       /\ audioNodes[k].playing

\* C12: the outcome of an extraction job is decided by the encoder's exit
\* code: a job resolves only after exit code 0, with the path of its
\* output file; after any other exit code it rejects with an error that
\* names the code and carries the captured stderr text (trimmed); no job
\* rejects after exit code 0.
C12_ExitCodeDecides ==
  [][ /\ last'.kind = "ok"
           => /\ last'.code = 0
              /\ last'.path = OutputPath(jobs[last'.job].dir, last'.idx)
      /\ last'.kind = "fail" => last'.code # 0
      /\ (last'.kind = "fail" /\ last'.code # NoCode)
           => /\ last'.message.code = last'.code
              /\ last'.message.text =
                   TrimRight(TrimLeft(jobs[last'.job].stderr))
      /\ \A j \in DOMAIN jobs \ DOMAIN jobs' :
           last'.job = j /\ last'.kind \in {"ok", "fail"} ]_vars

\* the encoder wrote "Invalid stream" to stderr and exited with code 1
C12_Witness ==
  /\ last.kind = "fail"
  /\ last.code = 1
  /\ last.message.text = <<"Invalid stream">>
  /\ last.idx \in DOMAIN tracks
  /\ Lifecycle(tracks[last.idx]) = "Failed"

\* C13: when the encoder cannot be spawned the job rejects with the spawn
\* error, it has sent no extract-progress event before, and being gone it
\* sends none afterwards.
C13_SpawnErrorNoProgress ==
  (last.kind = "fail" /\ last.code = NoCode)
  => /\ last.message = SpawnFailure
     /\ last.log = <<>>
     /\ last.job \notin DOMAIN jobs

\* a spawn failure of a job that had a duration to report progress against
C13_Witness ==
  /\ last.kind = "fail"
  /\ last.code = NoCode
  /\ probeDuration # 0
  /\ last.idx \in DOMAIN tracks
  /\ Lifecycle(tracks[last.idx]) = "Failed"
  /\ tracks[last.idx].progress = Zero

\* C14: in every ProbeResult the k-th audio stream of the prober's output,
\* in encounter order, is the track with audioIndex k (from 0) and with
\* streamIndex its native index; other streams give no track, so the
\* audioIndex values are exactly 0..N-1 whatever the native indices.
C14_DenseAudioIndex ==
  probe.result.kind = "ok"
  => LET audio == SelectSeq(probe.streams, LAMBDA st : st.codec_type = "audio")
         made == probe.result.audioTracks
     IN /\ Len(made) = Len(audio)
        /\ \A k \in 1..Len(made) :
             /\ made[k].audioIndex = k - 1
             /\ made[k].streamIndex = audio[k].index
        /\ DOMAIN tracks = 0..(Len(audio) - 1)

\* a probe of two audio streams behind a video stream, native indices with
\* a gap
C14_Witness ==
  /\ probe.result.kind = "ok"
  /\ Len(probe.streams) = 3
  /\ probe.streams[1].codec_type = "video"
  /\ Len(probe.result.audioTracks) = 2
  /\ probe.result.audioTracks[1].streamIndex = 2
  /\ probe.result.audioTracks[2].streamIndex = 4
  /\ probe.result.audioTracks[2].audioIndex = 1

\* C15: a probe whose prober exits with a non-zero code fails with an
\* error carrying the captured stderr (trimmed), and so does one whose
\* stdout is not parseable JSON; a ProbeResult is returned only after exit
\* code 0 with parseable stdout, and a failed probe gives the renderer no
\* track list.
C15_ProbeFails ==
  probe.result.kind # "none"
  => /\ probe.code # 0 => probe.result.kind = "fail"
     /\ probe.code \notin {0, NoCode}
          => probe.result.message =
               [code |-> probe.code, text |-> TrimRight(TrimLeft(probe.stderr))]
     /\ probe.parse = "invalid" => probe.result.kind = "fail"
     /\ probe.result.kind = "ok"
          => probe.code = 0 /\ probe.parse # "invalid"
     /\ probe.result.kind = "fail" => tracks = <<>>

\* the prober wrote streams and a diagnostic and exited with code 1
C15_Witness ==
  /\ probe.result.kind = "fail"
  /\ probe.code = 1
  /\ probe.parse = "object"
  /\ probe.streams # <<>>
  /\ probe.result.message.text = <<"No such file">>
  /\ tracks = <<>>

\* C16: in a ProbeResult each numeric field (channels, sampleRate, bitRate
\* of a track, the format duration) is unset whenever the prober's value
\* for it is absent or not numeric.
C16_NonNumericUnset ==
  probe.result.kind = "ok"
  => LET audio == SelectSeq(probe.streams, LAMBDA st : st.codec_type = "audio")
         made == probe.result.audioTracks
         nonNumeric(x) ==
           \/ x.t = "absent"
           \/ x.t = "str" /\ (x.s = <<>> \/ NumberOf(x.s).nan)
     IN /\ nonNumeric(probe.format) => probe.result.duration = Unset
        /\ \A k \in 1..Len(made) :
             /\ nonNumeric(audio[k].channels) => made[k].channels = Unset
             /\ nonNumeric(audio[k].sample_rate) => made[k].sampleRate = Unset
             /\ nonNumeric(audio[k].bit_rate) => made[k].bitRate = Unset

\* C17: every successful extraction of audioIndex i returns the path
\* track_<i>.wav directly inside the temp directory that is the current
\* one (tempDir) when the result is returned.
C17_PathInSessionDir ==
  last.kind = "ok" => last.path = OutputPath(tempDir, last.idx)

\* C18: on a synchronizer tick during playback every enabled Ready track
\* has an audio element, and the element of each one whose drift magnitude
\* exceeds 0.25 s is set to the video's time and to the nominal rate.
C18_HardResync ==
  [][ last'.kind = "tick"
      => \A i \in EnabledTracks :
           /\ i \in DOMAIN audioNodes
           /\ Abs(audioNodes[i].time - videoTime) > HardDrift
                => /\ audioNodes'[i].time = videoTime'
                   /\ audioNodes'[i].rate = playbackRate * Nominal ]_vars

\* the video at 10.30 s and a track at 10.00 s: the tick put the track at
\* 10.30 s at the nominal rate
C18_Witness ==
  /\ last.kind = "tick"
  /\ videoTime = 1030
  /\ \E i \in DOMAIN last.drift :
       /\ last.drift[i] = -30
       /\ audioNodes[i].time = 1030
       /\ audioNodes[i].rate = playbackRate * Nominal

\* C19: on a synchronizer tick the element of every enabled Ready track
\* whose drift magnitude is above 0.08 s and at most 0.25 s keeps its
\* position and gets the nominal rate biased by 3%: slower (0.97) when the
\* track is ahead of the video, faster (1.03) when behind, the same for
\* every drift of the band, 0.25 s included.
C19_SoftCorrection ==
  [][ last'.kind = "tick"
      => \A i \in EnabledTracks :
           LET drift == audioNodes[i].time - videoTime IN
           (Abs(drift) > SoftDrift /\ Abs(drift) <= HardDrift)
           => /\ audioNodes'[i].time = audioNodes[i].time
              /\ drift > 0 => audioNodes'[i].rate = playbackRate * Slower
              /\ drift < 0 => audioNodes'[i].rate = playbackRate * Faster ]_vars

\* a tick found one track exactly 0.25 s ahead and the other 0.09 s
\* behind: the first runs at 0.97, the second at 1.03, neither has moved
C19_Witness ==
  /\ last.kind = "tick"
  /\ \E i, k \in DOMAIN last.drift :
       /\ last.drift[i] = 25
       /\ audioNodes[i].time = videoTime + 25
       /\ audioNodes[i].rate = playbackRate * Slower
       /\ last.drift[k] = -9
       /\ audioNodes[k].time = videoTime - 9
       /\ audioNodes[k].rate = playbackRate * Faster

\* C20: a synchronizer tick that finds the drift magnitude of an enabled
\* Ready track at most 0.08 s (0.08 s included) leaves its element where
\* it is at the nominal rate, and so does every tick that follows while the
\* drift stays there.
C20_IdempotentAtRest ==
  [][ last'.kind = "tick"
      => \A i \in EnabledTracks :
           Abs(audioNodes[i].time - videoTime) <= SoftDrift
           => /\ audioNodes'[i].time = audioNodes[i].time
              /\ audioNodes'[i].rate = playbackRate * Nominal
              /\ TickNode(audioNodes'[i], videoTime', playbackRate')
                   = audioNodes'[i] ]_vars

\* two consecutive ticks found a track exactly 0.08 s ahead: it is still
\* there, at the nominal rate
C20_Witness ==
  /\ last.kind = "tick"
  /\ last.ticks = 2
  /\ \E i \in DOMAIN last.drift :
       /\ last.drift[i] = 8
       /\ audioNodes[i].time = videoTime + 8
       /\ audioNodes[i].rate = playbackRate * Nominal

\* C21: a seek leaves every enabled track's element at the new video
\* position, playing if and only if playback was active before the seek; a
\* seek while paused leaves every track's element paused; and no
\* synchronizer tick runs while paused.
C21_SeekAligns ==
  [][ /\ last'.kind = "seek"
           => /\ \A i \in EnabledTracks :
                   /\ i \in DOMAIN audioNodes'
                   /\ audioNodes'[i].time = videoTime'
                   /\ audioNodes'[i].playing <=> isPlaying
              /\ ~isPlaying
                   => \A k \in DOMAIN audioNodes' : ~audioNodes'[k].playing
      /\ last'.kind = "tick" => isPlaying /\ ~videoPaused ]_vars

\* C22: progress parsing does not depend on chunking: however the output
\* read so far was cut into data chunks (inside a line, between CR and LF),
\* the events sent and the incomplete line carried over are those of the
\* same output arriving as one chunk.
C22_ChunkingIndependent ==
  \A j \in DOMAIN jobs :
    LET whole == OnData(<<>>, jobs[j].read, jobs[j].duration)
    IN /\ jobs[j].log = whole.events
       /\ jobs[j].buffer = whole.buffer

\* the output was cut at least twice, the last time between the CR and the
\* LF that end the second progress line: one event is out, the line is
\* carried over
C22_Witness ==
  \E j \in DOMAIN jobs :
    /\ jobs[j].chunks >= 3
    /\ Len(jobs[j].log) = 1
    /\ jobs[j].buffer =
         KeyOutTimeMs \o <<EQ, "1", "5", "0", "0", "0", "0", "0", CR>>

\* C23: a malformed progress line (no '=', a key other than out_time_ms, or
\* out_time_ms with a value that is no number) is skipped: the events a job
\* has sent are exactly those of the well-formed progress lines it has
\* read, and the job is still running.
C23_MalformedSkipped ==
  \A j \in DOMAIN jobs :
    LET all == SplitLines(jobs[j].read)
        complete == SubSeq(all, 1, Len(all) - 1)
        WellFormed(line) ==
          /\ Len(SplitEq(line)) >= 2
          /\ KeyOf(line) = KeyOutTimeMs
          /\ ~NumberOf(ValueOf(line)).nan
    IN /\ jobs[j].stage = "running"
       /\ jobs[j].log = LinesEvents(SelectSeq(complete, WellFormed), jobs[j].duration)

\* C24: while an extraction whose request carries no known total duration
\* is running, it has sent no progress event and the progress of its track
\* is 0, whatever lines the encoder has written.
C24_NoDurationNoProgress ==
  \A j \in DOMAIN jobs :
    jobs[j].duration = 0
      => /\ jobs[j].log = <<>>
         /\ jobs[j].idx \in DOMAIN tracks
              => tracks[jobs[j].idx].progress = Zero

\* a job without a duration has read, in several chunks, output that would
\* have sent two events had the duration been known
C24_Witness ==
  \E j \in DOMAIN jobs :
    /\ jobs[j].duration = 0
    /\ jobs[j].chunks >= 2
    /\ \E d \in Durations \ {0} : Len(OnData(<<>>, jobs[j].read, d).events) = 2
    /\ tracks[jobs[j].idx].progress = Zero

\* C25: a failure to remove the temp directory is recorded and not fatal:
\* the step in which a removal fails ends that cleanupTempDir with no
\* current temp directory, a probe-file request goes on to run the prober,
\* and any other request just ends.
C25_RmFailureNotFatal ==
  [][ \A c \in DOMAIN ops :
        ( /\ ops[c].stage = "rm"
          /\ rmFailed' # rmFailed
          /\ c \notin DOMAIN ops' \/ ops'[c].stage # "rm" )
        => /\ ops[c].dir \in rmFailed'
           /\ tempDir' = NoDir
           /\ IF ops[c].kind = "probe"
                THEN c \in DOMAIN ops' /\ ops'[c].stage = "ffprobe"
                ELSE c \notin DOMAIN ops' ]_vars

\* the removal of a probe-file request failed (the directory is still on
\* disk), no temp directory is recorded and the request is running ffprobe
C25_Witness ==
  \E c \in DOMAIN ops :
    /\ ops[c].kind = "probe"
    /\ ops[c].stage = "ffprobe"
    /\ ops[c].dir \in rmFailed \cap disk
    /\ tempDir = NoDir

\* C26: no two encoder processes alive at the same time write to the same
\* output file, whatever the interleaving of extract-track, probe-file and
\* cleanup-temp requests (jobs of different sessions included).
C26_NoSharedOutput ==
  \A j1, j2 \in DOMAIN jobs :
    ( /\ j1 # j2
      /\ jobs[j1].stage = "running"
      /\ jobs[j2].stage = "running" )
    => OutputPath(jobs[j1].dir, jobs[j1].idx) # OutputPath(jobs[j2].dir, jobs[j2].idx)

====
